---- MODULE Spec2Model ----
(***************************************************************************)
(* PowerManager of rover_power_manager/power_manager.cpp as a state        *)
(* machine.  One action per entry point of the node: the three             *)
(* subscription callbacks, the two timer callbacks and the public          *)
(* setMode.  The executor of main (rclcpp::spin) runs one callback at a    *)
(* time, so every action is one whole handler.                             *)
(*                                                                         *)
(* Numbers.  Power is in whole watts.  Voltage is in centivolts and the    *)
(* state of charge in whole percent; the voltage samples are 24 V plus a   *)
(* multiple of 0.27 V, for which ((v - 24) / 5.4) * 100 is a whole number  *)
(* (a multiple of 5).  Arithmetic is exact where the code rounds to        *)
(* binary32.  The battery path (voltage, battery_soc) carries the IEEE     *)
(* not-a-number as well: a float is [nan, val]; the solar and twist        *)
(* samples are finite integers.                                            *)
(***************************************************************************)
EXTENDS Integers, Sequences, FiniteSets

(* ---------------------------- bounds ----------------------------------- *)

\* Twist samples: linear.x and angular.z range over -MaxTwist..MaxTwist.
MaxTwist == 1

\* The runs explored: at most MaxCalls handler invocations after construction.
MaxCalls == 4

\* Runs that end in a quiet period: the samples and setMode calls of a run,
\* and the management ticks followed after the last of them.
MaxSamples == 2
MaxQuiet == 3

\* Voltage samples: 24 V + k * 0.27 V for k in VoltageSteps, so SOC = 5 * k
\* before clamping: 0 (clamped from -10), 15, 25, 30, 40, 45 and 100
\* (clamped from 105).
VoltageSteps == {-2, 3, 5, 6, 8, 9, 21}

\* Solar power samples in watts: one negative, zero, the rule-2 threshold 5,
\* 10, a value that runs out inside the HIGH class, and the whole nominal
\* demand of the registry.
SolarSamples == {-5, 0, 5, 10, 31, 200}

(* ---------------------------- enums ------------------------------------ *)

\* enum class PowerMode
NORMAL == 0
LOW_POWER == 1
HIBERNATION == 2
EMERGENCY == 3
PowerMode == {NORMAL, LOW_POWER, HIBERNATION, EMERGENCY}

\* enum class ComponentPriority
CRITICAL == 0
HIGH == 1
MEDIUM == 2
LOW == 3
ComponentPriority == {CRITICAL, HIGH, MEDIUM, LOW}

(* ---------------------------- floats ----------------------------------- *)

\* A binary32 value of the battery path: not-a-number, or a finite value.
NaN == [nan |-> TRUE, val |-> 0]
Float(x) == [nan |-> FALSE, val |-> x]

\* a < b on floats: false as soon as one side is not-a-number.
FLess(a, b) == ~a.nan /\ ~b.nan /\ a.val < b.val

\* std::max(a, b) is (a < b) ? b : a; std::min(a, b) is (b < a) ? b : a.
FMax(a, b) == IF FLess(a, b) THEN b ELSE a
FMin(a, b) == IF FLess(b, a) THEN b ELSE a

\* std::clamp(v, lo, hi) = min(max(v, lo), hi): a not-a-number v comes back.
Clamp(v, lo, hi) == FMin(FMax(v, lo), hi)

\* ((v - 24.0f) / 5.4f) * 100.0f on a voltage in centivolts.
SocOfVoltage(v) == IF v.nan THEN NaN ELSE Float(((v.val - 2400) * 100) \div 540)

(* ---------------------------- state ------------------------------------ *)

VARIABLES
    current_mode_,   \* PowerMode current_mode_
    energy_state_,   \* EnergyState energy_state_
    components_,     \* std::vector<PowerComponent> components_, 1-based
    last_call,       \* the handler that ran last ("none" after construction)
    published,       \* the messages that handler published, in order
    calls,           \* the number of handler invocations so far
    pc,              \* where the running managementLoop stands ("idle": none runs)
    target_mode,     \* managementLoop's local target_mode, while it runs
    quiet_modes      \* the mode at the last sample or setMode, then the mode
                     \* each management tick since then left

vars == <<current_mode_, energy_state_, components_, last_call, published, calls,
          pc, target_mode, quiet_modes>>

\* One PowerComponent, fields in declaration order.
PowerComponent(n, p, nom, cur, en, ess) ==
    [name |-> n, priority |-> p, nominal_power |-> nom, current_power |-> cur,
     is_enabled |-> en, is_essential |-> ess]

\* The registry initializeComponents() builds.
initializeComponents ==
    << PowerComponent("communication", CRITICAL, 15, 15, TRUE, TRUE),
       PowerComponent("fdir_watchdog", CRITICAL, 5, 5, TRUE, TRUE),
       PowerComponent("navigation", HIGH, 25, 25, TRUE, TRUE),
       PowerComponent("motors", HIGH, 50, 0, TRUE, TRUE),
       PowerComponent("lidar", MEDIUM, 20, 20, TRUE, FALSE),
       PowerComponent("cameras", MEDIUM, 15, 15, TRUE, FALSE),
       PowerComponent("science_instruments", LOW, 30, 0, TRUE, FALSE),
       PowerComponent("heating", MEDIUM, 40, 0, TRUE, FALSE) >>

\* A message on one of the three publishers.
Msg(topic, data) == [topic |-> topic, data |-> data]

\* The state the constructor leaves.
Init ==
    /\ current_mode_ = NORMAL
    /\ energy_state_ = [battery_soc |-> Float(100), voltage |-> Float(2800),
                        current |-> 0, power_consumption |-> 0,
                        solar_generation |-> 0, temperature |-> 20,
                        mode |-> NORMAL]
    /\ components_ = initializeComponents
    /\ last_call = "none"
    /\ published = << >>
    /\ calls = 0
    /\ pc = "idle"
    /\ target_mode = NORMAL
    /\ quiet_modes = << NORMAL >>

(* ---------------------------- helpers ---------------------------------- *)

\* powerModeToString
powerModeToString(mode) ==
    CASE mode = NORMAL -> "NORMAL"
      [] mode = LOW_POWER -> "LOW_POWER"
      [] mode = HIBERNATION -> "HIBERNATION"
      [] mode = EMERGENCY -> "EMERGENCY"
      [] OTHER -> "UNKNOWN"

\* Sum of f[i] over the indices in S.
RECURSIVE SumOver(_, _)
SumOver(S, f) ==
    IF S = {} THEN 0
    ELSE LET i == CHOOSE x \in S : TRUE IN f[i] + SumOver(S \ {i}, f)

\* Mutant: the total runs over every component, enabled or not.
TotalConsumption_AllComponents(comps) ==
    SumOver(DOMAIN comps, [i \in DOMAIN comps |-> comps[i].current_power])

\* The total updatePowerConsumption() stores: current_power of the enabled.
TotalConsumption(comps) ==
    SumOver({i \in DOMAIN comps : comps[i].is_enabled},
            [i \in DOMAIN comps |-> comps[i].current_power])

\* Mutant: the sum is not restricted to the CRITICAL priority.
getCriticalPowerConsumption_AllEnabled(comps) ==
    SumOver({i \in DOMAIN comps : comps[i].is_enabled},
            [i \in DOMAIN comps |-> comps[i].current_power])

\* getCriticalPowerConsumption
getCriticalPowerConsumption(comps) ==
    SumOver({i \in DOMAIN comps :
                comps[i].is_enabled /\ comps[i].priority = CRITICAL},
            [i \in DOMAIN comps |-> comps[i].current_power])

\* getAvailablePower: std::max(0.0f, solar_generation - critical consumption)
getAvailablePower(es, comps) ==
    LET net_power == es.solar_generation - getCriticalPowerConsumption(comps)
    IN  IF 0 < net_power THEN net_power ELSE 0

(* ---------------------------- mode decision ---------------------------- *)

\* Mutant: the low-power rule is tested before the hibernation rule.
determineTargetMode_LowPowerFirst(soc, power_balance) ==
    IF FLess(soc, Float(15)) THEN EMERGENCY
    ELSE IF FLess(soc, Float(30)) \/ power_balance < -10 THEN LOW_POWER
    ELSE IF energy_state_.solar_generation < 5 /\ FLess(soc, Float(50))
         THEN HIBERNATION
    ELSE IF FLess(Float(40), soc) /\ power_balance > 0 THEN NORMAL
    ELSE current_mode_

\* Mutant: the hibernation rule is tested before the emergency rule.
determineTargetMode_HibernationFirst(soc, power_balance) ==
    IF energy_state_.solar_generation < 5 /\ FLess(soc, Float(50))
    THEN HIBERNATION
    ELSE IF FLess(soc, Float(15)) THEN EMERGENCY
    ELSE IF FLess(soc, Float(30)) \/ power_balance < -10 THEN LOW_POWER
    ELSE IF FLess(Float(40), soc) /\ power_balance > 0 THEN NORMAL
    ELSE current_mode_

\* Mutant: no hysteresis, the last rule falls back to NORMAL.
determineTargetMode_DefaultNormal(soc, power_balance) ==
    IF FLess(soc, Float(15)) THEN EMERGENCY
    ELSE IF energy_state_.solar_generation < 5 /\ FLess(soc, Float(50))
         THEN HIBERNATION
    ELSE IF FLess(soc, Float(30)) \/ power_balance < -10 THEN LOW_POWER
    ELSE IF FLess(Float(40), soc) /\ power_balance > 0 THEN NORMAL
    ELSE NORMAL

\* determineTargetMode(soc, power_balance): a member function, it reads
\* energy_state_.solar_generation and current_mode_ besides its arguments.
determineTargetMode(soc, power_balance) ==
    IF FLess(soc, Float(15)) THEN EMERGENCY
    ELSE IF energy_state_.solar_generation < 5 /\ FLess(soc, Float(50))
         THEN HIBERNATION
    ELSE IF FLess(soc, Float(30)) \/ power_balance < -10 THEN LOW_POWER
    ELSE IF FLess(Float(40), soc) /\ power_balance > 0 THEN NORMAL
    ELSE current_mode_

\* Mutant: LOW_POWER disables by priority only, without the "cameras" rule.
adjustComponentsForMode_NoCameraRule(mode, comps) ==
    [i \in DOMAIN comps |->
        CASE mode = NORMAL -> [comps[i] EXCEPT !.is_enabled = TRUE]
          [] mode = LOW_POWER ->
                IF comps[i].priority = LOW
                THEN [comps[i] EXCEPT !.is_enabled = FALSE]
                ELSE comps[i]
          [] mode = HIBERNATION ->
                IF comps[i].priority # CRITICAL /\ ~comps[i].is_essential
                THEN [comps[i] EXCEPT !.is_enabled = FALSE]
                ELSE comps[i]
          [] mode = EMERGENCY ->
                [comps[i] EXCEPT !.is_enabled = (comps[i].priority = CRITICAL)]
          [] OTHER -> comps[i]]

\* Mutant: NORMAL leaves the enabled flags as they are.
adjustComponentsForMode_NormalKeepsFlags(mode, comps) ==
    [i \in DOMAIN comps |->
        CASE mode = LOW_POWER ->
                IF comps[i].priority = LOW \/ comps[i].name = "cameras"
                THEN [comps[i] EXCEPT !.is_enabled = FALSE]
                ELSE comps[i]
          [] mode = HIBERNATION ->
                IF comps[i].priority # CRITICAL /\ ~comps[i].is_essential
                THEN [comps[i] EXCEPT !.is_enabled = FALSE]
                ELSE comps[i]
          [] mode = EMERGENCY ->
                [comps[i] EXCEPT !.is_enabled = (comps[i].priority = CRITICAL)]
          [] OTHER -> comps[i]]

\* Mutant: EMERGENCY disables every component, the CRITICAL ones too.
adjustComponentsForMode_EmergencyDisablesAll(mode, comps) ==
    [i \in DOMAIN comps |->
        CASE mode = NORMAL -> [comps[i] EXCEPT !.is_enabled = TRUE]
          [] mode = LOW_POWER ->
                IF comps[i].priority = LOW \/ comps[i].name = "cameras"
                THEN [comps[i] EXCEPT !.is_enabled = FALSE]
                ELSE comps[i]
          [] mode = HIBERNATION ->
                IF comps[i].priority # CRITICAL /\ ~comps[i].is_essential
                THEN [comps[i] EXCEPT !.is_enabled = FALSE]
                ELSE comps[i]
          [] mode = EMERGENCY -> [comps[i] EXCEPT !.is_enabled = FALSE]
          [] OTHER -> comps[i]]

\* Mutant: EMERGENCY prunes like HIBERNATION, keeping the essential ones.
adjustComponentsForMode_EmergencyKeepsEssential(mode, comps) ==
    [i \in DOMAIN comps |->
        CASE mode = NORMAL -> [comps[i] EXCEPT !.is_enabled = TRUE]
          [] mode = LOW_POWER ->
                IF comps[i].priority = LOW \/ comps[i].name = "cameras"
                THEN [comps[i] EXCEPT !.is_enabled = FALSE]
                ELSE comps[i]
          [] mode \in {HIBERNATION, EMERGENCY} ->
                IF comps[i].priority # CRITICAL /\ ~comps[i].is_essential
                THEN [comps[i] EXCEPT !.is_enabled = FALSE]
                ELSE comps[i]
          [] OTHER -> comps[i]]

\* adjustComponentsForMode: the registry after the switch on mode.
adjustComponentsForMode(mode, comps) ==
    [i \in DOMAIN comps |->
        CASE mode = NORMAL -> [comps[i] EXCEPT !.is_enabled = TRUE]
          [] mode = LOW_POWER ->
                IF comps[i].priority = LOW \/ comps[i].name = "cameras"
                THEN [comps[i] EXCEPT !.is_enabled = FALSE]
                ELSE comps[i]
          [] mode = HIBERNATION ->
                IF comps[i].priority # CRITICAL /\ ~comps[i].is_essential
                THEN [comps[i] EXCEPT !.is_enabled = FALSE]
                ELSE comps[i]
          [] mode = EMERGENCY ->
                [comps[i] EXCEPT !.is_enabled = (comps[i].priority = CRITICAL)]
          [] OTHER -> comps[i]]

\* Mutant: the switch publishes nothing on power/mode.
switchMode_Silent(new_mode, es, comps) ==
    [mode |-> new_mode,
     es |-> [es EXCEPT !.mode = new_mode],
     pub |-> << >>,
     comps |-> adjustComponentsForMode(new_mode, comps)]

\* switchMode(new_mode) on an energy state and a registry: what it stores,
\* what it publishes on power/mode, and the adjusted registry.
switchMode(new_mode, es, comps) ==
    [mode |-> new_mode,
     es |-> [es EXCEPT !.mode = new_mode],
     pub |-> << Msg("power/mode", powerModeToString(new_mode)) >>,
     comps |-> adjustComponentsForMode(new_mode, comps)]

(* ---------------------------- allocation ------------------------------- *)

\* All orders (sequences without repetition) of the elements of S.
RECURSIVE Perms(_)
Perms(S) ==
    IF S = {} THEN { << >> }
    ELSE UNION { { <<x>> \o t : t \in Perms(S \ {x}) } : x \in S }

\* The registry indices of one priority class.
OfPriority(p) ==
    {i \in DOMAIN initializeComponents : initializeComponents[i].priority = p}

\* Every order of the whole registry that ascends in priority.
PriorityOrders ==
    { a \o b \o c \o d :
        a \in Perms(OfPriority(CRITICAL)), b \in Perms(OfPriority(HIGH)),
        c \in Perms(OfPriority(MEDIUM)), d \in Perms(OfPriority(LOW)) }

\* What std::sort may leave in sorted_components: the enabled components in
\* ascending priority; the order of equal priorities is unspecified.
SortOutcomes(comps) ==
    { SelectSeq(o, LAMBDA i : comps[i].is_enabled) : o \in PriorityOrders }

\* Mutant: the fully-served branch does not subtract what it assigned.
RECURSIVE allocateLoop_NoSubtract(_, _, _)
allocateLoop_NoSubtract(comps, available_power, sorted) ==
    IF sorted = << >> THEN comps
    ELSE LET i == Head(sorted) IN
         IF available_power >= comps[i].nominal_power
         THEN allocateLoop_NoSubtract(
                [comps EXCEPT ![i].current_power = comps[i].nominal_power],
                available_power, Tail(sorted))
         ELSE allocateLoop_NoSubtract(
                [comps EXCEPT ![i].current_power = available_power],
                0, Tail(sorted))

\* Mutant: the under-served branch leaves available_power as it is.
RECURSIVE allocateLoop_KeepsRemainder(_, _, _)
allocateLoop_KeepsRemainder(comps, available_power, sorted) ==
    IF sorted = << >> THEN comps
    ELSE LET i == Head(sorted) IN
         IF available_power >= comps[i].nominal_power
         THEN allocateLoop_KeepsRemainder(
                [comps EXCEPT ![i].current_power = comps[i].nominal_power],
                available_power - comps[i].nominal_power, Tail(sorted))
         ELSE allocateLoop_KeepsRemainder(
                [comps EXCEPT ![i].current_power = available_power],
                available_power, Tail(sorted))

\* The greedy loop of allocatePower over sorted_components.
RECURSIVE allocateLoop(_, _, _)
allocateLoop(comps, available_power, sorted) ==
    IF sorted = << >> THEN comps
    ELSE LET i == Head(sorted) IN
         IF available_power >= comps[i].nominal_power
         THEN allocateLoop(
                [comps EXCEPT ![i].current_power = comps[i].nominal_power],
                available_power - comps[i].nominal_power, Tail(sorted))
         ELSE allocateLoop(
                [comps EXCEPT ![i].current_power = available_power],
                0, Tail(sorted))

\* Mutant: every enabled component gets its nominal power, whatever the budget.
allocatePower_NominalToAll(comps, es, sorted) ==
    [i \in DOMAIN comps |->
        IF comps[i].is_enabled
        THEN [comps[i] EXCEPT !.current_power = comps[i].nominal_power]
        ELSE comps[i]]

\* Mutant: the budget is the power balance, not the solar generation.
allocatePower_BalanceBudget(comps, es, sorted) ==
    allocateLoop(comps, es.solar_generation - es.power_consumption, sorted)

\* allocatePower with the budget energy_state_.solar_generation.
allocatePower(comps, es, sorted) ==
    allocateLoop(comps, es.solar_generation, sorted)

(* ---------------------------- handlers --------------------------------- *)

\* batteryCallback(msg), msg->data = v.
batteryCallback(v) ==
    LET soc == Clamp(SocOfVoltage(v), Float(0), Float(100)) IN
    /\ energy_state_' = [energy_state_ EXCEPT !.voltage = v, !.battery_soc = soc]
    /\ published' = << Msg("power/battery_soc", soc) >>
    /\ last_call' = "batteryCallback"
    /\ UNCHANGED <<current_mode_, components_>>

\* solarCallback(msg), msg->data = p.
solarCallback(p) ==
    /\ energy_state_' = [energy_state_ EXCEPT !.solar_generation = p]
    /\ published' = << >>
    /\ last_call' = "solarCallback"
    /\ UNCHANGED <<current_mode_, components_>>

\* std::abs
Abs(x) == IF x < 0 THEN -x ELSE x

\* The motor power velocityCallback computes from the twist.
MotorPower(linear_x, angular_z) == 10 + 40 * Abs(linear_x) + 20 * Abs(angular_z)

\* velocityCallback(msg): the first component named "motors" gets the power.
velocityCallback(linear_x, angular_z) ==
    LET motor_power == MotorPower(linear_x, angular_z)
        named == {i \in DOMAIN components_ : components_[i].name = "motors"}
        first == CHOOSE i \in named : \A j \in named : i <= j
    IN
    /\ components_' = IF named = {} THEN components_
                      ELSE [components_ EXCEPT ![first].current_power = motor_power]
    /\ published' = << >>
    /\ last_call' = "velocityCallback"
    /\ UNCHANGED <<current_mode_, energy_state_>>

\* managementLoop: consumption, decision, switch, allocation, budget.
\* (A singleton \E names a value that is computed once.)
managementLoop ==
    \E es1 \in { [energy_state_ EXCEPT
                     !.power_consumption = TotalConsumption(components_)] } :
    \E target \in { determineTargetMode(es1.battery_soc,
                            es1.solar_generation - es1.power_consumption) } :
    \E sw \in { IF target # current_mode_
                 THEN switchMode(target, es1, components_)
                 ELSE [mode |-> current_mode_, es |-> es1, pub |-> << >>,
                       comps |-> components_] } :
    \E sorted \in SortOutcomes(sw.comps) :
    \E comps2 \in { allocatePower(sw.comps, sw.es, sorted) } :
        /\ current_mode_' = sw.mode
        /\ energy_state_' = sw.es
        /\ components_' = comps2
        /\ published' = sw.pub \o
              << Msg("power/available_power", getAvailablePower(sw.es, comps2)) >>
        /\ last_call' = "managementLoop"

\* predictionLoop: it logs the constant of predictEnergyForNextSol, the SOC
\* and the mode, publishes nothing, and writes only last_prediction_time_,
\* which nothing else reads.
predictionLoop ==
    /\ published' = << >>
    /\ last_call' = "predictionLoop"
    /\ UNCHANGED <<current_mode_, energy_state_, components_>>

\* Mutant: setMode switches without comparing with the current mode.
setModeEffect_Unguarded(mode) ==
    switchMode(mode, energy_state_, components_)

\* What setMode(mode) does: the switch when mode differs, nothing otherwise.
setModeEffect(mode) ==
    IF mode # current_mode_
    THEN switchMode(mode, energy_state_, components_)
    ELSE [mode |-> current_mode_, es |-> energy_state_,
          pub |-> << >>, comps |-> components_]

\* setMode(mode)
setMode(mode) ==
    \E sw \in { setModeEffect(mode) } :
        /\ current_mode_' = sw.mode
        /\ energy_state_' = sw.es
        /\ components_' = sw.comps
        /\ published' = sw.pub
        /\ last_call' = "setMode"

(* ---------------------------- specification ---------------------------- *)

\* The voltage samples: finite ones on the 0.27 V grid, and not-a-number.
VoltageSamples == { Float(2400 + 27 * k) : k \in VoltageSteps } \cup { NaN }

\* Mutant: the executor calls a ready callback while another one runs.
ExecutorIdle_Reentrant == TRUE

\* rclcpp::spin(node) in main is the single-threaded executor: it takes the
\* next ready callback only when the one it called has returned.
ExecutorIdle == pc = "idle"

\* One more handler invocation that runs from entry to return, while the run
\* is within its bound.
Called ==
    /\ ExecutorIdle
    /\ calls < MaxCalls
    /\ calls' = calls + 1
    /\ UNCHANGED <<pc, target_mode, quiet_modes>>

\* The entry points, each run as a whole; setMode is the public call.
Battery == Called /\ \E v \in VoltageSamples : batteryCallback(v)
Solar == Called /\ \E p \in SolarSamples : solarCallback(p)
Velocity == Called /\ \E x \in -MaxTwist..MaxTwist, z \in -MaxTwist..MaxTwist :
                velocityCallback(x, z)
Management == Called /\ managementLoop
Prediction == Called /\ predictionLoop
SetMode == Called /\ \E m \in PowerMode : setMode(m)

Next == Battery \/ Solar \/ Velocity \/ Management \/ Prediction \/ SetMode

Spec == Init /\ [][Next]_vars

(* ------------------- runs that end in a quiet period -------------------- *)

\* The samples of these runs: a state of charge of 10, 25, 35, 45 and 100
\* percent and not-a-number; a negative reading, no sun, a weak sun, a sun
\* between the demand of LOW_POWER (155 W) and that of NORMAL (200 W), and a
\* sun that covers NORMAL.
QuietVoltageSteps == {2, 5, 7, 9, 20}
QuietSolarSamples == {-5, 0, 31, 170, 200}
QuietVoltages == { Float(2400 + 27 * k) : k \in QuietVoltageSteps } \cup { NaN }

\* A sample or a setMode call: it starts a new quiet period.
Sampled ==
    /\ calls < MaxSamples
    /\ calls' = calls + 1
    /\ quiet_modes' = << current_mode_' >>
    /\ UNCHANGED <<pc, target_mode>>

\* A timer tick within the quiet period; the period is followed for MaxQuiet
\* management ticks.
QuietTick ==
    /\ ExecutorIdle
    /\ UNCHANGED <<calls, pc, target_mode>>

QuietBattery == (\E v \in QuietVoltages : batteryCallback(v)) /\ Sampled
QuietSolar == (\E p \in QuietSolarSamples : solarCallback(p)) /\ Sampled
QuietVelocity == (\E x \in 0..MaxTwist, z \in 0..MaxTwist :
                     velocityCallback(x, z)) /\ Sampled
QuietSetMode == (\E m \in PowerMode : setMode(m)) /\ Sampled
QuietManagement ==
    /\ QuietTick
    /\ Len(quiet_modes) <= MaxQuiet
    /\ managementLoop
    /\ quiet_modes' = Append(quiet_modes, current_mode_')
QuietPrediction == QuietTick /\ predictionLoop /\ UNCHANGED quiet_modes

NextQuiet ==
    \/ QuietBattery \/ QuietSolar \/ QuietVelocity \/ QuietSetMode
    \/ QuietManagement \/ QuietPrediction

SpecQuiet == Init /\ [][NextQuiet]_vars

(* ------------------- managementLoop, statement by statement ------------- *)

\* The timer fires and the executor calls managementLoop: it starts, and
\* updatePowerConsumption() stores the consumption.
TickUpdate ==
    /\ ExecutorIdle
    /\ calls < MaxCalls
    /\ calls' = calls + 1
    /\ energy_state_' = [energy_state_ EXCEPT
                            !.power_consumption = TotalConsumption(components_)]
    /\ published' = << >>
    /\ last_call' = "managementLoop"
    /\ pc' = "decide"
    /\ UNCHANGED <<current_mode_, components_, target_mode, quiet_modes>>

\* power_balance and target_mode are computed.
TickDecide ==
    /\ pc = "decide"
    /\ target_mode' = determineTargetMode(energy_state_.battery_soc,
                          energy_state_.solar_generation
                              - energy_state_.power_consumption)
    /\ pc' = "switch"
    /\ UNCHANGED <<current_mode_, energy_state_, components_, last_call,
                   published, calls, quiet_modes>>

\* if (target_mode != current_mode_) switchMode(target_mode);
TickSwitch ==
    /\ pc = "switch"
    /\ \E sw \in { IF target_mode # current_mode_
                     THEN switchMode(target_mode, energy_state_, components_)
                     ELSE [mode |-> current_mode_, es |-> energy_state_,
                           pub |-> << >>, comps |-> components_] } :
          /\ current_mode_' = sw.mode
          /\ energy_state_' = sw.es
          /\ components_' = sw.comps
          /\ published' = published \o sw.pub
    /\ pc' = "allocate"
    /\ UNCHANGED <<last_call, calls, target_mode, quiet_modes>>

\* allocatePower();
TickAllocate ==
    /\ pc = "allocate"
    /\ \E sorted \in SortOutcomes(components_) :
          components_' = allocatePower(components_, energy_state_, sorted)
    /\ pc' = "report"
    /\ UNCHANGED <<current_mode_, energy_state_, last_call, published, calls,
                   target_mode, quiet_modes>>

\* The budget is published and managementLoop returns; its local is gone.
TickReport ==
    /\ pc = "report"
    /\ published' = published \o
          << Msg("power/available_power",
                 getAvailablePower(energy_state_, components_)) >>
    /\ pc' = "idle"
    /\ target_mode' = NORMAL
    /\ UNCHANGED <<current_mode_, energy_state_, components_, last_call, calls,
                   quiet_modes>>

\* The five entry points the node registers, under the executor of main.
NextSteps ==
    \/ Battery \/ Solar \/ Velocity \/ Prediction
    \/ TickUpdate \/ TickDecide \/ TickSwitch \/ TickAllocate \/ TickReport

SpecSteps == Init /\ [][NextSteps]_vars

(* ---------------------------- properties ------------------------------- *)

\* The quantities a management tick decided on, read off the state it leaves:
\* the tick writes none of battery_soc and solar_generation, and stores the
\* consumption it computed in power_consumption.
SocBelow(es, x) == ~es.battery_soc.nan /\ es.battery_soc.val < x
SocAbove(es, x) == ~es.battery_soc.nan /\ es.battery_soc.val > x
Balance(es) == es.solar_generation - es.power_consumption

Rule1(es) == SocBelow(es, 15)
Rule2(es) == es.solar_generation < 5 /\ SocBelow(es, 50)
Rule3(es) == SocBelow(es, 30) \/ Balance(es) < -10
Rule4(es) == SocAbove(es, 40) /\ Balance(es) > 0

\* C1: a management tick leaves the mode the ordered, first-match table
\* gives for the SOC, the solar generation, the consumption it computed and
\* the mode it started in: EMERGENCY, else HIBERNATION, else LOW_POWER, else
\* NORMAL, else the mode unchanged.
C1_DecisionTable ==
    [][ last_call' = "managementLoop" =>
          LET es == energy_state_' IN
          /\ Rule1(es) => current_mode_' = EMERGENCY
          /\ ~Rule1(es) /\ Rule2(es) => current_mode_' = HIBERNATION
          /\ ~Rule1(es) /\ ~Rule2(es) /\ Rule3(es) => current_mode_' = LOW_POWER
          /\ ~Rule1(es) /\ ~Rule2(es) /\ ~Rule3(es) /\ Rule4(es)
                => current_mode_' = NORMAL
          /\ ~Rule1(es) /\ ~Rule2(es) /\ ~Rule3(es) /\ ~Rule4(es)
                => current_mode_' = current_mode_ ]_vars

\* Witness of C1: a tick on which the hibernation rule matched although the
\* low-power rule matched too (SOC below 30, no sun), so the order decided.
C1_Witness ==
    /\ last_call = "managementLoop"
    /\ ~Rule1(energy_state_) /\ Rule2(energy_state_) /\ Rule3(energy_state_)
    /\ current_mode_ = HIBERNATION

\* C2: right after a management tick that ran with battery_soc < 15 the mode
\* is EMERGENCY, whatever the solar generation, the consumption and the
\* mode before.
C2_EmergencyBelow15 ==
    (last_call = "managementLoop" /\ SocBelow(energy_state_, 15))
        => (current_mode_ = EMERGENCY /\ energy_state_.mode = EMERGENCY)

\* Witness of C2: such a tick with no sun, where the hibernation rule would
\* match as well.
C2_Witness ==
    /\ last_call = "managementLoop"
    /\ SocBelow(energy_state_, 15)
    /\ energy_state_.solar_generation < 5
    /\ current_mode_ = EMERGENCY

\* The hysteresis band of C3: SOC in (30, 40], power balance in [-10, 0].
InBand(es) ==
    /\ SocAbove(es, 30) /\ ~SocAbove(es, 40) /\ ~es.battery_soc.nan
    /\ Balance(es) >= -10 /\ Balance(es) <= 0

\* C3 as stated: a management tick with SOC in (30, 40] and power balance
\* in [-10, 0] never changes the mode.
C3_Original ==
    [][ (last_call' = "managementLoop" /\ InBand(energy_state_'))
            => current_mode_' = current_mode_ ]_vars

\* C3 amended: a management tick with SOC in (30, 40], power balance in
\* [-10, 0] and solar_generation >= 5 never changes the mode.
C3_BandKeepsMode ==
    [][ (last_call' = "managementLoop" /\ InBand(energy_state_')
             /\ energy_state_'.solar_generation >= 5)
            => current_mode_' = current_mode_ ]_vars

\* Witness of C3: a tick in the band, with sun, that kept a mode other than
\* NORMAL.
C3_Witness ==
    /\ last_call = "managementLoop"
    /\ InBand(energy_state_)
    /\ energy_state_.solar_generation >= 5
    /\ current_mode_ = LOW_POWER

\* The enabled components, and those of CRITICAL priority, as index sets.
Enabled == {i \in DOMAIN components_ : components_[i].is_enabled}
Critical == {i \in DOMAIN components_ : components_[i].priority = CRITICAL}

\* C4: whenever the mode is EMERGENCY, the enabled components are exactly
\* the CRITICAL-priority ones (communication and fdir_watchdog).
C4_EmergencyExactlyCritical ==
    current_mode_ = EMERGENCY =>
        /\ Enabled = Critical
        /\ {components_[i].name : i \in Enabled} = {"communication", "fdir_watchdog"}

\* Witness of C4: EMERGENCY entered by a management tick.
C4_Witness ==
    /\ current_mode_ = EMERGENCY
    /\ last_call = "managementLoop"
    /\ Enabled = Critical

\* The data of the messages on power/mode among a handler's messages.
ModeMessages(pub) ==
    LET sel == SelectSeq(pub, LAMBDA m : m.topic = "power/mode")
    IN  [k \in DOMAIN sel |-> sel[k].data]

\* C5: setMode(m) with m the current mode changes neither the mode, nor any
\* component, nor the EnergyState, and publishes no mode message.  (A
\* setMode step that leaves current_mode_ as it was is such a call.)
C5_SetModeSameIsNoOp ==
    [][ (last_call' = "setMode" /\ current_mode_' = current_mode_)
            => /\ components_' = components_
               /\ energy_state_' = energy_state_
               /\ ModeMessages(published') = << >> ]_vars

\* Witness of C5: setMode has run and switched nothing, in a mode other
\* than the initial one.
C5_Witness ==
    /\ last_call = "setMode"
    /\ published = << >>
    /\ current_mode_ = LOW_POWER

\* C6 as stated: every component has 0 <= current_power <= nominal_power.
C6_PowerWithinNominal ==
    \A i \in DOMAIN components_ :
        /\ 0 <= components_[i].current_power
        /\ components_[i].current_power <= components_[i].nominal_power

\* Sum of the nominal power of the components in S.
NominalSum(S) ==
    SumOver(S, [i \in DOMAIN components_ |-> components_[i].nominal_power])

\* Component u is the first under-served one of a priority-ascending
\* service order in which the components of `before` (of u's priority)
\* precede it: all served before u hold their nominal power, u holds what
\* is left of the budget, which is less than its nominal power, and all
\* served after u hold 0.
GreedyAround(u, before, budget) ==
    LET served == {i \in Enabled :
                     components_[i].priority < components_[u].priority} \cup before
        after == Enabled \ (served \cup {u})
    IN  /\ \A i \in served :
              components_[i].current_power = components_[i].nominal_power
        /\ components_[u].current_power = budget - NominalSum(served)
        /\ components_[u].current_power < components_[u].nominal_power
        /\ \A i \in after : components_[i].current_power = 0

\* C7: right after a management tick whose budget (solar_generation) is less
\* than the nominal demand of the enabled components, these are fully served
\* in ascending priority order, the first that cannot be fully served holds
\* exactly the remaining budget, and every enabled component after it holds
\* 0; with a budget of 0 every enabled component holds 0.
C7_GreedyByPriority ==
    (last_call = "managementLoop"
        /\ energy_state_.solar_generation < NominalSum(Enabled))
    => /\ \E u \in Enabled :
            \E before \in SUBSET {i \in Enabled \ {u} :
                          components_[i].priority = components_[u].priority} :
                GreedyAround(u, before, energy_state_.solar_generation)
       /\ energy_state_.solar_generation = 0
            => \A i \in Enabled : components_[i].current_power = 0

\* Witness of C7: a tick whose budget ran out inside the HIGH class, after
\* both CRITICAL components were fully served.
C7_Witness ==
    /\ last_call = "managementLoop"
    /\ energy_state_.solar_generation = 31
    /\ Enabled = DOMAIN components_
    /\ \A i \in Critical :
          components_[i].current_power = components_[i].nominal_power
    /\ \E u \in Enabled : components_[u].priority = HIGH
                             /\ components_[u].current_power = 11

\* C8: right after a management tick whose budget (solar_generation) is at
\* least the nominal demand of the enabled components, every enabled
\* component holds exactly its nominal power.
C8_FullService ==
    (last_call = "managementLoop"
        /\ energy_state_.solar_generation >= NominalSum(Enabled))
    => \A i \in Enabled :
          components_[i].current_power = components_[i].nominal_power

\* Witness of C8: a tick in NORMAL mode whose budget equals the demand of
\* the whole registry, all of it enabled and fully served.
C8_Witness ==
    /\ last_call = "managementLoop"
    /\ Enabled = DOMAIN components_
    /\ energy_state_.solar_generation = NominalSum(Enabled)
    /\ \A i \in Enabled :
          components_[i].current_power = components_[i].nominal_power

\* C9 as stated: battery_soc is a number within [0, 100] in every state.
C9_SocInRange ==
    /\ ~energy_state_.battery_soc.nan
    /\ 0 <= energy_state_.battery_soc.val
    /\ energy_state_.battery_soc.val <= 100

\* The string the mode is reported as.
ModeName(m) ==
    IF m = NORMAL THEN "NORMAL"
    ELSE IF m = LOW_POWER THEN "LOW_POWER"
    ELSE IF m = HIBERNATION THEN "HIBERNATION"
    ELSE "EMERGENCY"

\* C10: a handler publishes exactly one mode message, naming the new mode,
\* when it changes the current mode, and no mode message when it leaves the
\* mode unchanged.
C10_ModePublishedOnChange ==
    [][ /\ current_mode_' # current_mode_
            => ModeMessages(published') = << ModeName(current_mode_') >>
        /\ current_mode_' = current_mode_
            => ModeMessages(published') = << >> ]_vars

\* Witness of C10: a management tick that changed the mode and published
\* its name.
C10_Witness ==
    /\ last_call = "managementLoop"
    /\ current_mode_ = HIBERNATION
    /\ ModeMessages(published) = << "HIBERNATION" >>

\* C12 as stated: among enabled components of equal priority the allocator
\* serves the earlier-registered one first, so right after a management tick
\* a later one holds power only if every earlier one of its priority holds
\* its nominal power (navigation before motors, lidar before cameras before
\* heating).
C12_StableWithinPriority ==
    last_call = "managementLoop" =>
        \A i \in Enabled : \A j \in Enabled :
            (i < j /\ components_[i].priority = components_[j].priority
                   /\ components_[j].current_power # 0)
            => components_[i].current_power = components_[i].nominal_power

\* The component of the given name.
Named(n) == CHOOSE i \in DOMAIN components_ : components_[i].name = n

\* C13: from the initial state, after a battery sample yielding SOC 25, a
\* solar sample of 10 W and no motion command, the next management tick
\* switches to LOW_POWER and leaves "cameras" and every LOW-priority
\* component disabled.  (With three handler calls in all and the tick last,
\* SOC 25 and 10 W of sun are reached by exactly these two samples.)
C13_ScenarioLowPower ==
    (calls = 3 /\ last_call = "managementLoop"
        /\ energy_state_.battery_soc = Float(25)
        /\ energy_state_.solar_generation = 10)
    => /\ current_mode_ = LOW_POWER
       /\ ModeMessages(published) = << "LOW_POWER" >>
       /\ ~components_[Named("cameras")].is_enabled
       /\ \A i \in DOMAIN components_ :
             components_[i].priority = LOW => ~components_[i].is_enabled

\* Witness of C13: the scenario's tick has run and the mode is LOW_POWER.
C13_Witness ==
    /\ calls = 3 /\ last_call = "managementLoop"
    /\ energy_state_.battery_soc = Float(25)
    /\ energy_state_.solar_generation = 10
    /\ current_mode_ = LOW_POWER
    /\ Enabled = DOMAIN components_ \ {Named("cameras"), Named("science_instruments")}

\* C14: in every state the enabled set respects the disabling rule of the
\* mode: NORMAL has every component enabled, LOW_POWER has "cameras" and the
\* LOW-priority components disabled, HIBERNATION has every component that is
\* neither CRITICAL nor essential disabled.
C14_EnabledRespectsMode ==
    \A i \in DOMAIN components_ :
        /\ current_mode_ = NORMAL => components_[i].is_enabled
        /\ (current_mode_ = LOW_POWER
              /\ (components_[i].name = "cameras" \/ components_[i].priority = LOW))
            => ~components_[i].is_enabled
        /\ (current_mode_ = HIBERNATION
              /\ components_[i].priority # CRITICAL /\ ~components_[i].is_essential)
            => ~components_[i].is_enabled

\* Witness of C14: NORMAL entered again from a mode that had disabled
\* components, with all of them enabled.
C14_Witness ==
    /\ current_mode_ = NORMAL
    /\ ModeMessages(published) = << "NORMAL" >>
    /\ Enabled = DOMAIN components_

\* The sum of current_power over the enabled components of a registry.
EnabledPower(comps) ==
    SumOver({i \in DOMAIN comps : comps[i].is_enabled},
            [i \in DOMAIN comps |-> comps[i].current_power])

\* C15 as stated: after a management tick, after a motion-command sample and
\* after setMode, power_consumption equals the sum of current_power over
\* the enabled components.
C15_Original ==
    last_call \in {"managementLoop", "velocityCallback", "setMode"}
        => energy_state_.power_consumption = EnabledPower(components_)

\* C15 amended: a management tick stores in power_consumption the sum of
\* current_power over the components enabled when the tick starts, before
\* its switch and its allocation, and no other handler writes the field.
C15_ConsumptionAtTickStart ==
    [][ /\ last_call' = "managementLoop"
            => energy_state_'.power_consumption = EnabledPower(components_)
        /\ last_call' # "managementLoop"
            => energy_state_'.power_consumption = energy_state_.power_consumption
      ]_vars

\* Witness of C15: a tick has run and its allocation left the enabled
\* components with another total than the one stored.
C15_Witness ==
    /\ last_call = "managementLoop"
    /\ energy_state_.power_consumption > 0
    /\ energy_state_.power_consumption # EnabledPower(components_)

\* The last message a handler published.
LastMessage(pub) == pub[Len(pub)]

\* C16: the budget a management tick publishes is max(0, solar_generation -
\* sum of current_power over the enabled CRITICAL components) on the
\* registry the allocation left, and is never negative.
C16_PublishedBudget ==
    last_call = "managementLoop" =>
        LET net == energy_state_.solar_generation
                     - SumOver(Enabled \cap Critical,
                          [i \in DOMAIN components_ |-> components_[i].current_power])
            msg == LastMessage(published)
        IN  /\ msg.topic = "power/available_power"
            /\ msg.data = (IF net > 0 THEN net ELSE 0)
            /\ msg.data >= 0

\* Witness of C16: a tick that published a positive budget below the solar
\* generation, with components other than the CRITICAL ones drawing power.
C16_Witness ==
    /\ last_call = "managementLoop"
    /\ LastMessage(published).topic = "power/available_power"
    /\ LastMessage(published).data = 11
    /\ energy_state_.solar_generation = 31

\* C17 as stated: whenever the mode is HIBERNATION, every essential
\* component is enabled.
C17_HibernationKeepsEssential ==
    current_mode_ = HIBERNATION =>
        \A i \in DOMAIN components_ :
            components_[i].is_essential => components_[i].is_enabled

\* C18: every CRITICAL-priority component is enabled in every state.
C18_CriticalAlwaysEnabled ==
    \A i \in DOMAIN components_ :
        components_[i].priority = CRITICAL => components_[i].is_enabled

\* Witness of C18: EMERGENCY left for LOW_POWER, with only the CRITICAL
\* components enabled.
C18_Witness ==
    /\ current_mode_ = LOW_POWER
    /\ Enabled = Critical
    /\ calls >= 2

\* C20: right after a management tick run with solar_generation >= 0, the
\* sum of current_power over the enabled components is the smaller of
\* solar_generation and their nominal demand, so it never exceeds
\* solar_generation.
C20_AllocatedIsMin ==
    (last_call = "managementLoop" /\ energy_state_.solar_generation >= 0)
    => /\ EnabledPower(components_) =
             (IF energy_state_.solar_generation < NominalSum(Enabled)
              THEN energy_state_.solar_generation ELSE NominalSum(Enabled))
       /\ EnabledPower(components_) <= energy_state_.solar_generation

\* Witness of C20: a tick whose budget of 31 W was below the demand and was
\* handed out completely.
C20_Witness ==
    /\ last_call = "managementLoop"
    /\ energy_state_.solar_generation = 31
    /\ EnabledPower(components_) = 31
    /\ NominalSum(Enabled) > 31

\* C19: when no battery, solar or motion-command sample arrives and setMode is
\* not called, the mode changes in at most the first two management ticks:
\* every later tick leaves the mode the second tick left.
C19_ModeSettlesInTwoTicks ==
    \A k \in 4..Len(quiet_modes) : quiet_modes[k] = quiet_modes[3]

\* Three quiet ticks have run and the first two both changed the mode.
C19_Witness ==
    /\ Len(quiet_modes) >= 4
    /\ last_call = "managementLoop"
    /\ quiet_modes[2] # quiet_modes[1]
    /\ quiet_modes[3] # quiet_modes[2]
    /\ current_mode_ = quiet_modes[3]

\* The statement of managementLoop that follows the one at pc.
StepAfter(p) ==
    CASE p = "decide" -> "switch"
      [] p = "switch" -> "allocate"
      [] p = "allocate" -> "report"
      [] p = "report" -> "idle"

\* C11: the entry points never overlap: while a management tick is between
\* its first and its last step, the only thing that runs is that tick's next
\* step; no other handler starts and no telemetry field is written.
C11_TickIsNotInterleaved ==
    [][ pc # "idle" =>
          /\ pc' = StepAfter(pc)
          /\ last_call' = "managementLoop"
          /\ calls' = calls
          /\ energy_state_'.voltage = energy_state_.voltage
          /\ energy_state_'.battery_soc = energy_state_.battery_soc
          /\ energy_state_'.solar_generation = energy_state_.solar_generation
      ]_vars

\* A management tick that follows two samples is between its switch to
\* LOW_POWER and its allocation.
C11_Witness ==
    /\ pc = "allocate"
    /\ calls >= 3
    /\ current_mode_ = LOW_POWER
    /\ ModeMessages(published) = << "LOW_POWER" >>

====
